---------------------------- MODULE Spec2Model ----------------------------
(***************************************************************************)
(* The wellally record schemas (language/rust/src) and their JSON encode   *)
(* and decode, as the serde derives of the source define them.             *)
(*                                                                         *)
(* A schema is a table of field descriptors read off the struct            *)
(* declarations and their serde attributes; Serialize and Deserialize are  *)
(* the derive's generic algorithms run over those tables.  Types of the    *)
(* crate root (lib.rs, the "loose" definitions) carry the prefix "lib::".  *)
(***************************************************************************)
EXTENDS Integers, Sequences, FiniteSets, TLC

(***************************************************************************)
(* JSON values.  An object keeps its members in order.  A JSON string is   *)
(* either opaque ("str") or spelled character by character ("txt"); the    *)
(* spelled form is used for the texts of dates and timestamps.             *)
(***************************************************************************)
JNull == [t |-> "null"]
JBool(b) == [t |-> "bool", v |-> b]
\* a number literal: f = TRUE for a literal with a fraction (v in tenths),
\* f = FALSE for an integer literal (v the integer)
JNum(f, n) == [t |-> "num", f |-> f, v |-> n]
JStr(s) == [t |-> "str", v |-> s]
JTxt(cs) == [t |-> "txt", v |-> cs]
JList(xs) == [t |-> "list", v |-> xs]
JMap(ms) == [t |-> "map", v |-> ms]
Member(k, j) == [k |-> k, v |-> j]

Keys(j) == {j.v[i].k : i \in 1..Len(j.v)}
HasKey(j, k) == \E i \in 1..Len(j.v) : j.v[i].k = k
Get(j, k) == j.v[CHOOSE i \in 1..Len(j.v) : j.v[i].k = k /\ \A h \in 1..(i-1) : j.v[h].k # k].v

(***************************************************************************)
(* Field descriptors.  name: the Rust identifier (a raw identifier r#x is  *)
(* the identifier x); rename: the serde(rename) literal, "" when none;     *)
(* base: the innermost type; shape: how Option and Vec wrap it; skip: the  *)
(* field carries skip_serializing_if = "Option::is_none"; dflt: the field  *)
(* carries serde(default = ...) and this is what the function returns.     *)
(***************************************************************************)
Field(name, rename, inner, shape, skip) ==
    [name |-> name, rename |-> rename, base |-> inner, shape |-> shape,
     skip |-> skip, hasDflt |-> FALSE, dflt |-> JNull]
Req(name, inner) == Field(name, "", inner, "req", FALSE)
ReqAs(name, key, inner) == Field(name, key, inner, "req", FALSE)
VecOf(name, inner) == Field(name, "", inner, "vec", FALSE)
\* Option<T> with skip_serializing_if = "Option::is_none"
Opt(name, inner) == Field(name, "", inner, "opt", TRUE)
OptAs(name, key, inner) == Field(name, key, inner, "opt", TRUE)
OptVec(name, inner) == Field(name, "", inner, "optvec", TRUE)
\* Option<T> with no attribute of its own (the loose structs)
Bare(name, inner) == Field(name, "", inner, "opt", FALSE)
BareAs(name, key, inner) == Field(name, key, inner, "opt", FALSE)
BareVec(name, inner) == Field(name, "", inner, "optvec", FALSE)

default_resource_type == JStr("Person")

(***************************************************************************)
(* common.rs                                                               *)
(***************************************************************************)
NameUse == [renameAll |-> "lowercase", renames |-> <<>>,
    variants |-> <<"Official", "Usual", "Nickname", "Anonymous", "Old", "Maiden">>]
ContactSystem == [renameAll |-> "lowercase", renames |-> <<>>,
    variants |-> <<"Phone", "Email">>]
ContactUse == [renameAll |-> "lowercase", renames |-> <<>>,
    variants |-> <<"Home", "Work", "Mobile">>]
ModalityCode == [renameAll |-> "", renames |-> <<>>,
    variants |-> <<"CT", "MR", "US", "XR", "PT">>]

Coding == [skipNone |-> FALSE, fields |->
    <<Req("system", "String"), Req("code", "String"), Opt("display", "String")>>]
CodeableConcept == [skipNone |-> FALSE, fields |->
    <<VecOf("coding", "Coding"), Opt("text", "String")>>]
Quantity == [skipNone |-> FALSE, fields |->
    <<Req("value", "f64"), Req("unit", "String")>>]
ReferenceRange == [skipNone |-> FALSE, fields |->
    <<Opt("low", "Quantity"), Opt("high", "Quantity"), Opt("text", "String")>>]
Identifier == [skipNone |-> FALSE, fields |->
    <<Req("system", "String"), Req("value", "String"),
      Opt("type", "CodeableConcept"), Opt("period", "Period")>>]
HumanName == [skipNone |-> FALSE, fields |->
    <<Req("family", "String"), VecOf("given", "String"), Opt("use", "NameUse"),
      OptVec("prefix", "String"), OptVec("suffix", "String")>>]
ContactPoint == [skipNone |-> FALSE, fields |->
    <<Req("system", "ContactSystem"), Req("value", "String"),
      Opt("use", "ContactUse")>>]
Address == [skipNone |-> FALSE, fields |->
    <<OptVec("line", "String"), Opt("city", "String"), Opt("state", "String"),
      OptAs("postal_code", "postalCode", "String"), Opt("country", "String")>>]
Period == [skipNone |-> FALSE, fields |->
    <<Opt("start", "NaiveDate"), Opt("end", "NaiveDate")>>]
Modality == [skipNone |-> FALSE, fields |->
    <<Req("system", "String"), Req("code", "ModalityCode"), Opt("display", "String")>>]
Route == [skipNone |-> FALSE, fields |->
    <<Req("system", "String"), Req("code", "String"), Opt("display", "String")>>]

(***************************************************************************)
(* health.rs                                                               *)
(***************************************************************************)
Gender == [renameAll |-> "lowercase", renames |-> <<>>,
    variants |-> <<"Male", "Female", "Other", "Unknown">>]
ClinicalSummary == [skipNone |-> FALSE, fields |->
    <<OptVec("conditions", "CodeableConcept"), OptVec("allergies", "CodeableConcept"),
      OptAs("blood_type", "bloodType", "String"),
      OptAs("primary_care_provider", "primaryCareProvider", "String")>>]
Person == [skipNone |-> FALSE, fields |->
    <<Req("id", "String"), ReqAs("resource_type", "resourceType", "String"),
      VecOf("name", "HumanName"), ReqAs("birth_date", "birthDate", "NaiveDate"),
      OptVec("identifier", "Identifier"), Opt("gender", "Gender"),
      OptVec("telecom", "ContactPoint"), OptVec("address", "Address"),
      OptAs("marital_status", "maritalStatus", "CodeableConcept"),
      OptVec("language", "String"),
      OptAs("clinical_summary", "clinicalSummary", "ClinicalSummary")>>]

(***************************************************************************)
(* lab_report.rs                                                           *)
(***************************************************************************)
Interpretation == [renameAll |-> "", renames |-> <<>>,
    variants |-> <<"N", "L", "H", "A">>]
Facility == [skipNone |-> FALSE, fields |->
    <<Opt("id", "String"), Opt("name", "String")>>]
Specimen == [skipNone |-> FALSE, fields |->
    <<OptAs("specimen_type", "type", "Coding"),
      OptAs("collected_at", "collectedAt", "DateTime<Utc>")>>]
\* serde(untagged): the variants in declaration order, each a newtype
LabValue == <<[variant |-> "Quantity", of |-> "Quantity"],
              [variant |-> "Concept", of |-> "CodeableConcept"],
              [variant |-> "String", of |-> "String"]>>
LabResult == [skipNone |-> FALSE, fields |->
    <<Req("code", "CodeableConcept"), Req("value", "LabValue"),
      OptAs("reference_range", "referenceRange", "ReferenceRange"),
      Opt("interpretation", "Interpretation"), Opt("method", "CodeableConcept")>>]
LabReport == [skipNone |-> FALSE, fields |->
    <<Req("id", "String"), ReqAs("patient_id", "patientId", "String"),
      ReqAs("issued_at", "issuedAt", "DateTime<Utc>"), VecOf("results", "LabResult"),
      Opt("facility", "Facility"), Opt("panel", "CodeableConcept"),
      Opt("specimen", "Specimen")>>]

(***************************************************************************)
(* imaging_report.rs                                                       *)
(***************************************************************************)
Performer == [skipNone |-> FALSE, fields |->
    <<Opt("id", "String"), Opt("name", "String"), Opt("role", "String")>>]
RadiationDose == [skipNone |-> FALSE, fields |->
    <<OptAs("ctdi_vol_mgy", "ctdiVol_mGy", "f64"),
      OptAs("dlp_mgy_cm", "dlp_mGy_cm", "f64")>>]
Attachment == [skipNone |-> FALSE, fields |->
    <<Opt("url", "String"), OptAs("attachment_type", "type", "String")>>]
ImagingReport == [skipNone |-> FALSE, fields |->
    <<Req("id", "String"), ReqAs("patient_id", "patientId", "String"),
      Req("modality", "Modality"), ReqAs("body_site", "bodySite", "Coding"),
      ReqAs("reported_at", "reportedAt", "DateTime<Utc>"),
      OptAs("study_instance_uid", "studyInstanceUid", "String"),
      Opt("performer", "Performer"), OptVec("findings", "String"),
      Opt("impression", "String"),
      OptAs("radiation_dose", "radiationDose", "RadiationDose"),
      OptVec("attachments", "Attachment")>>]

(***************************************************************************)
(* medication.rs                                                           *)
(***************************************************************************)
Dosage == [skipNone |-> FALSE, fields |->
    <<Req("value", "f64"), Req("unit", "String")>>]
MedicationRecord == [skipNone |-> FALSE, fields |->
    <<Req("id", "String"), ReqAs("patient_id", "patientId", "String"),
      Req("medication", "Coding"), Req("dosage", "Dosage"), Req("route", "Route"),
      ReqAs("start_date", "startDate", "NaiveDate"), Opt("form", "Coding"),
      Opt("frequency", "String"), OptAs("duration_days", "durationDays", "i32"),
      OptAs("end_date", "endDate", "NaiveDate"), Opt("indication", "CodeableConcept"),
      Opt("instructions", "String")>>]

(***************************************************************************)
(* family_health.rs                                                        *)
(***************************************************************************)
RelationToProband == [renameAll |-> "lowercase", renames |-> <<<<"Self_", "self">>>>,
    variants |-> <<"Self_", "Mother", "Father", "Sibling", "Child", "Grandparent",
                   "Grandchild", "Aunt", "Uncle", "Cousin", "Other">>]
Sex == [renameAll |-> "lowercase", renames |-> <<>>,
    variants |-> <<"Male", "Female", "Other", "Unknown">>]
FamilyMember == [skipNone |-> FALSE, fields |->
    <<Req("id", "String"),
      ReqAs("relation_to_proband", "relationToProband", "RelationToProband"),
      Opt("sex", "Sex"), OptAs("birth_year", "birthYear", "i32"),
      Opt("deceased", "bool"), OptVec("conditions", "CodeableConcept")>>]
FamilyHealthTree == [skipNone |-> FALSE, fields |->
    <<ReqAs("proband_id", "probandId", "String"), VecOf("members", "FamilyMember")>>]

(***************************************************************************)
(* lib.rs: the definitions of the crate root.  Each struct but Dosage and  *)
(* FamilyHealthTree carries #[skip_serializing_none].                      *)
(***************************************************************************)
LibReferenceRange == [skipNone |-> TRUE, fields |->
    <<Bare("low", "Quantity"), Bare("high", "Quantity"), Bare("text", "String")>>]
LibIdentifier == [skipNone |-> TRUE, fields |->
    <<Req("system", "String"), Req("value", "String"),
      BareAs("id_type", "type", "CodeableConcept"), Bare("period", "lib::Period")>>]
LibHumanName == [skipNone |-> TRUE, fields |->
    <<Req("family", "String"), VecOf("given", "String"), Bare("use_", "String"),
      BareVec("prefix", "String"), BareVec("suffix", "String")>>]
LibContactPoint == [skipNone |-> TRUE, fields |->
    <<Bare("system", "String"), Req("value", "String"), Bare("use_", "String")>>]
LibAddress == [skipNone |-> TRUE, fields |->
    <<BareVec("line", "String"), Bare("city", "String"), Bare("state", "String"),
      Bare("postalCode", "String"), Bare("country", "String")>>]
LibPeriod == [skipNone |-> TRUE, fields |->
    <<Bare("start", "String"), Bare("end", "String")>>]
LibModality == [skipNone |-> TRUE, fields |->
    <<Req("system", "String"), Req("code", "String"), Bare("display", "String")>>]
LibRoute == [skipNone |-> TRUE, fields |->
    <<Req("system", "String"), Req("code", "String"), Bare("display", "String")>>]
SpecimenType == [skipNone |-> TRUE, fields |->
    <<Req("system", "String"), Req("code", "String"), Bare("display", "String")>>]
LibClinicalSummary == [skipNone |-> TRUE, fields |->
    <<BareVec("conditions", "CodeableConcept"), BareVec("allergies", "CodeableConcept"),
      Bare("bloodType", "String"), Bare("primaryCareProvider", "String")>>]
HealthPerson == [skipNone |-> TRUE, fields |->
    <<Req("id", "String"), VecOf("name", "lib::HumanName"), Req("birthDate", "String"),
      [Req("resourceType", "String") EXCEPT !.hasDflt = TRUE, !.dflt = default_resource_type],
      BareVec("identifier", "lib::Identifier"), Bare("gender", "String"),
      BareVec("telecom", "lib::ContactPoint"), BareVec("address", "lib::Address"),
      Bare("maritalStatus", "CodeableConcept"), BareVec("language", "String"),
      Bare("clinicalSummary", "lib::ClinicalSummary")>>]
LabResultValue == <<[variant |-> "Quantity", of |-> "Quantity"],
                    [variant |-> "CodeableConcept", of |-> "CodeableConcept"],
                    [variant |-> "Text", of |-> "String"]>>
LibLabResult == [skipNone |-> TRUE, fields |->
    <<Req("code", "CodeableConcept"), Req("value", "lib::LabResultValue"),
      Bare("referenceRange", "lib::ReferenceRange"), Bare("interpretation", "String"),
      Bare("method", "CodeableConcept")>>]
LibSpecimen == [skipNone |-> TRUE, fields |->
    <<Bare("type", "lib::SpecimenType"), Bare("collectedAt", "String")>>]
LibFacility == [skipNone |-> TRUE, fields |->
    <<Bare("id", "String"), Bare("name", "String")>>]
LibLabReport == [skipNone |-> TRUE, fields |->
    <<Req("id", "String"), Req("patientId", "String"), Req("issuedAt", "String"),
      VecOf("results", "lib::LabResult"), Bare("facility", "lib::Facility"),
      Bare("panel", "CodeableConcept"), Bare("specimen", "lib::Specimen")>>]
LibAttachment == [skipNone |-> TRUE, fields |->
    <<Bare("url", "String"), Bare("type", "String")>>]
LibRadiationDose == [skipNone |-> TRUE, fields |->
    <<Bare("ctdiVol_mGy", "f64"), Bare("dlp_mGy_cm", "f64")>>]
LibPerformer == [skipNone |-> TRUE, fields |->
    <<Bare("id", "String"), Bare("name", "String"), Bare("role", "String")>>]
LibImagingReport == [skipNone |-> TRUE, fields |->
    <<Req("id", "String"), Req("patientId", "String"), Req("modality", "lib::Modality"),
      Req("bodySite", "Coding"), Req("reportedAt", "String"),
      Bare("studyInstanceUid", "String"), Bare("performer", "lib::Performer"),
      BareVec("findings", "String"), Bare("impression", "String"),
      Bare("radiationDose", "lib::RadiationDose"),
      BareVec("attachments", "lib::Attachment")>>]
LibDosage == [skipNone |-> FALSE, fields |->
    <<Req("value", "f64"), Req("unit", "String")>>]
LibMedicationRecord == [skipNone |-> TRUE, fields |->
    <<Req("id", "String"), Req("patientId", "String"), Req("medication", "Coding"),
      Req("dosage", "lib::Dosage"), Req("route", "lib::Route"),
      Req("startDate", "String"), Bare("form", "Coding"), Bare("frequency", "String"),
      Bare("durationDays", "i64"), Bare("endDate", "String"),
      Bare("indication", "CodeableConcept"), Bare("instructions", "String")>>]
LibFamilyMember == [skipNone |-> TRUE, fields |->
    <<Req("id", "String"), Req("relationToProband", "String"), Bare("sex", "String"),
      Bare("birthYear", "i64"), Bare("deceased", "bool"),
      BareVec("conditions", "CodeableConcept")>>]
LibFamilyHealthTree == [skipNone |-> FALSE, fields |->
    <<Req("probandId", "String"), VecOf("members", "lib::FamilyMember")>>]

(***************************************************************************)
(* The type tables.                                                        *)
(***************************************************************************)
StrictStructs ==
    "Coding" :> Coding @@ "CodeableConcept" :> CodeableConcept @@
    "Quantity" :> Quantity @@ "ReferenceRange" :> ReferenceRange @@
    "Identifier" :> Identifier @@ "HumanName" :> HumanName @@
    "ContactPoint" :> ContactPoint @@ "Address" :> Address @@
    "Period" :> Period @@ "Modality" :> Modality @@ "Route" :> Route @@
    "ClinicalSummary" :> ClinicalSummary @@ "Person" :> Person @@
    "Facility" :> Facility @@ "Specimen" :> Specimen @@
    "LabResult" :> LabResult @@ "LabReport" :> LabReport @@
    "Performer" :> Performer @@ "RadiationDose" :> RadiationDose @@
    "Attachment" :> Attachment @@ "ImagingReport" :> ImagingReport @@
    "Dosage" :> Dosage @@ "MedicationRecord" :> MedicationRecord @@
    "FamilyMember" :> FamilyMember @@ "FamilyHealthTree" :> FamilyHealthTree
LooseStructs ==
    "lib::ReferenceRange" :> LibReferenceRange @@ "lib::Identifier" :> LibIdentifier @@
    "lib::HumanName" :> LibHumanName @@ "lib::ContactPoint" :> LibContactPoint @@
    "lib::Address" :> LibAddress @@ "lib::Period" :> LibPeriod @@
    "lib::Modality" :> LibModality @@ "lib::Route" :> LibRoute @@
    "lib::SpecimenType" :> SpecimenType @@
    "lib::ClinicalSummary" :> LibClinicalSummary @@ "lib::HealthPerson" :> HealthPerson @@
    "lib::LabResult" :> LibLabResult @@ "lib::Specimen" :> LibSpecimen @@
    "lib::Facility" :> LibFacility @@ "lib::LabReport" :> LibLabReport @@
    "lib::Attachment" :> LibAttachment @@ "lib::RadiationDose" :> LibRadiationDose @@
    "lib::Performer" :> LibPerformer @@ "lib::ImagingReport" :> LibImagingReport @@
    "lib::Dosage" :> LibDosage @@ "lib::MedicationRecord" :> LibMedicationRecord @@
    "lib::FamilyMember" :> LibFamilyMember @@
    "lib::FamilyHealthTree" :> LibFamilyHealthTree
Structs == StrictStructs @@ LooseStructs
Enums ==
    "NameUse" :> NameUse @@ "ContactSystem" :> ContactSystem @@
    "ContactUse" :> ContactUse @@ "ModalityCode" :> ModalityCode @@
    "Gender" :> Gender @@ "Interpretation" :> Interpretation @@
    "RelationToProband" :> RelationToProband @@ "Sex" :> Sex
Untagged == "LabValue" :> LabValue @@ "lib::LabResultValue" :> LabResultValue

IsStruct(T) == T \in DOMAIN Structs
IsEnum(T) == T \in DOMAIN Enums
IsUntagged(T) == T \in DOMAIN Untagged
FieldsOf(T) == Structs[T].fields


(***************************************************************************)
(* Bounds of the model.                                                    *)
(***************************************************************************)
\* how many strings of StrPool the values range over
NumStrings == 2
\* the longest Vec a value holds
MaxVecLen == 1
\* how many of FloatPool, IntPool, DatePool and TimePool the values range over
NumFloats == 3
NumInts == 2
NumDates == 3
NumTimes == 2
\* how many unknown keys an input may carry in each object
NumExtraKeys == 1

(***************************************************************************)
(* Wire names: serde's rules for a field's key and a variant's tag.        *)
(***************************************************************************)
\* str::to_lowercase on the variant identifiers of the crate
ToLower ==
    "Official" :> "official" @@ "Usual" :> "usual" @@ "Nickname" :> "nickname" @@
    "Anonymous" :> "anonymous" @@ "Old" :> "old" @@ "Maiden" :> "maiden" @@
    "Phone" :> "phone" @@ "Email" :> "email" @@ "Home" :> "home" @@
    "Work" :> "work" @@ "Mobile" :> "mobile" @@ "CT" :> "ct" @@ "MR" :> "mr" @@
    "US" :> "us" @@ "XR" :> "xr" @@ "PT" :> "pt" @@ "Male" :> "male" @@
    "Female" :> "female" @@ "Other" :> "other" @@ "Unknown" :> "unknown" @@
    "N" :> "n" @@ "L" :> "l" @@ "H" :> "h" @@ "A" :> "a" @@ "Self_" :> "self_" @@
    "Mother" :> "mother" @@ "Father" :> "father" @@ "Sibling" :> "sibling" @@
    "Child" :> "child" @@ "Grandparent" :> "grandparent" @@
    "Grandchild" :> "grandchild" @@ "Aunt" :> "aunt" @@ "Uncle" :> "uncle" @@
    "Cousin" :> "cousin"

\* the key a field is written and read under: the rename literal when there
\* is one, the field's identifier otherwise
WireKeyAlwaysIdent(f) == f.name
WireKey(f) == IF f.rename # "" THEN f.rename ELSE f.name

\* the tag of a unit variant: its own rename, else the container's
\* rename_all rule, else the identifier as declared
VariantTagLowercased(E, variant) == ToLower[variant]
VariantTag(E, variant) ==
    LET e == Enums[E]
        own == {i \in 1..Len(e.renames) : e.renames[i][1] = variant}
    IN IF own # {} THEN e.renames[CHOOSE i \in own : TRUE][2]
       ELSE IF e.renameAll = "lowercase" THEN ToLower[variant]
       ELSE variant
VariantsOf(E) == {Enums[E].variants[i] : i \in 1..Len(Enums[E].variants)}

(***************************************************************************)
(* chrono: NaiveDate and DateTime<Utc> as serde writes and reads them.     *)
(* A date is [y, m, d]; a timestamp is [y, m, d, h, mi, s] in UTC (whole   *)
(* seconds).                                                               *)
(***************************************************************************)
DigitChars == <<"0", "1", "2", "3", "4", "5", "6", "7", "8", "9">>
Digit(n) == DigitChars[n + 1]
IsDigit(c) == \E i \in 1..10 : DigitChars[i] = c
DigitValue(c) == (CHOOSE i \in 1..10 : DigitChars[i] = c) - 1
RECURSIVE Decimal(_)
Decimal(n) == IF n < 10 THEN <<Digit(n)>> ELSE Decimal(n \div 10) \o <<Digit(n % 10)>>
RECURSIVE ZeroPad(_, _)
ZeroPad(cs, width) == IF Len(cs) >= width THEN cs ELSE ZeroPad(<<"0">> \o cs, width)
RECURSIVE Number(_)
Number(cs) == IF cs = <<>> THEN 0 ELSE 10 * Number(SubSeq(cs, 1, Len(cs) - 1)) + DigitValue(cs[Len(cs)])
AllDigits(cs) == \A i \in 1..Len(cs) : IsDigit(cs[i])
Pad2(n) == ZeroPad(Decimal(n), 2)

\* the year as NaiveDate's Debug writes it: four digits for 0..9999, else
\* a sign and at least four digits ("{:+05}")
FormatYear(y) ==
    IF 0 <= y /\ y <= 9999 THEN ZeroPad(Decimal(y), 4)
    ELSE <<IF y < 0 THEN "-" ELSE "+">> \o ZeroPad(Decimal(IF y < 0 THEN -y ELSE y), 4)
FormatDateWithTime(d) ==
    FormatYear(d.y) \o <<"-">> \o Pad2(d.m) \o <<"-">> \o Pad2(d.d) \o
    <<"T", "0", "0", ":", "0", "0", ":", "0", "0">>
FormatDate(d) == FormatYear(d.y) \o <<"-">> \o Pad2(d.m) \o <<"-">> \o Pad2(d.d)
FormatTime(t) == Pad2(t.h) \o <<":">> \o Pad2(t.mi) \o <<":">> \o Pad2(t.s)
\* DateTime<Utc>: the date, "T", the time, and "Z" for the zero offset
FormatDateTimeNaive(t) == FormatDate(t) \o <<"T">> \o FormatTime(t)
FormatDateTime(t) == FormatDate(t) \o <<"T">> \o FormatTime(t) \o <<"Z">>

IsLeap(y) == (y % 4 = 0 /\ y % 100 # 0) \/ y % 400 = 0
DaysIn(y, m) ==
    IF m = 2 THEN (IF IsLeap(y) THEN 29 ELSE 28)
    ELSE IF m \in {4, 6, 9, 11} THEN 30 ELSE 31
\* days since 1970-01-01 of a civil date, and back
DaysFromCivil(y0, m, d) ==
    LET y == IF m <= 2 THEN y0 - 1 ELSE y0
        era == y \div 400
        yoe == y - era * 400
        doy == (153 * (IF m > 2 THEN m - 3 ELSE m + 9) + 2) \div 5 + d - 1
        doe == yoe * 365 + yoe \div 4 - yoe \div 100 + doy
    IN era * 146097 + doe - 719468
CivilFromDays(z0) ==
    LET z == z0 + 719468
        era == z \div 146097
        doe == z - era * 146097
        yoe == (doe - doe \div 1460 + doe \div 36524 - doe \div 146096) \div 365
        doy == doe - (365 * yoe + yoe \div 4 - yoe \div 100)
        mp == (5 * doy + 2) \div 153
        d == doy - (153 * mp + 2) \div 5 + 1
        m == IF mp < 10 THEN mp + 3 ELSE mp - 9
        y == yoe + era * 400 + (IF m <= 2 THEN 1 ELSE 0)
    IN [y |-> y, m |-> m, d |-> d]

Ok(v) == [ok |-> TRUE, v |-> v]
Err(kind, what) == [ok |-> FALSE, kind |-> kind, what |-> what]

\* NaiveDate::from_str: year, "-", month, "-", day.  A year with a sign may
\* have any number of digits, one without a sign at most four; month and day
\* have one or two digits.
ParseDate(cs) ==
    LET signed == Len(cs) > 0 /\ cs[1] \in {"+", "-"}
        body == IF signed THEN Tail(cs) ELSE cs
        dashes == {i \in 1..Len(body) : body[i] = "-"}
    IN IF Cardinality(dashes) # 2 THEN Err("Custom", "date")
       ELSE
         LET i1 == CHOOSE i \in dashes : \A j \in dashes : i <= j
             i2 == CHOOSE i \in dashes : \A j \in dashes : j <= i
             ys == SubSeq(body, 1, i1 - 1)
             ms == SubSeq(body, i1 + 1, i2 - 1)
             ds == SubSeq(body, i2 + 1, Len(body))
             y == IF signed /\ cs[1] = "-" THEN 0 - Number(ys) ELSE Number(ys)
             m == Number(ms)
             d == Number(ds)
         IN IF /\ AllDigits(ys) /\ AllDigits(ms) /\ AllDigits(ds)
               /\ Len(ys) >= 1 /\ (signed \/ Len(ys) <= 4)
               /\ Len(ms) \in 1..2 /\ Len(ds) \in 1..2
               /\ m \in 1..12 /\ d >= 1 /\ d <= DaysIn(y, m)
            THEN Ok([y |-> y, m |-> m, d |-> d])
            ELSE Err("Custom", "date")

\* DateTime<FixedOffset>::from_str, then the conversion to Utc: a date, "T",
\* hh:mm:ss and a zone, "Z" or a signed hh:mm
ParseDateTime(cs) ==
    LET ts == {i \in 1..Len(cs) : cs[i] = "T"}
    IN IF Cardinality(ts) # 1 THEN Err("Custom", "datetime")
       ELSE
         LET it == CHOOSE i \in ts : TRUE
             date == ParseDate(SubSeq(cs, 1, it - 1))
             rest == SubSeq(cs, it + 1, Len(cs))
             clock == SubSeq(rest, 1, 8)
             zone == SubSeq(rest, 9, Len(rest))
             clockOk == /\ Len(rest) >= 9
                        /\ clock[3] = ":" /\ clock[6] = ":"
                        /\ AllDigits(SubSeq(clock, 1, 2))
                        /\ AllDigits(SubSeq(clock, 4, 5))
                        /\ AllDigits(SubSeq(clock, 7, 8))
             zoneOk == \/ zone = <<"Z">>
                       \/ /\ Len(zone) = 6 /\ zone[1] \in {"+", "-"} /\ zone[4] = ":"
                          /\ AllDigits(SubSeq(zone, 2, 3)) /\ AllDigits(SubSeq(zone, 5, 6))
                          /\ Number(SubSeq(zone, 5, 6)) <= 59
         IN IF ~date.ok \/ ~clockOk \/ ~zoneOk THEN Err("Custom", "datetime")
            ELSE
              LET h == Number(SubSeq(clock, 1, 2))
                  mi == Number(SubSeq(clock, 4, 5))
                  s == Number(SubSeq(clock, 7, 8))
                  off == IF zone = <<"Z">> THEN 0
                         ELSE (IF zone[1] = "-" THEN 0 - 1 ELSE 1) *
                              (60 * Number(SubSeq(zone, 2, 3)) + Number(SubSeq(zone, 5, 6)))
                  mins == 60 * h + mi - off
                  day == DaysFromCivil(date.v.y, date.v.m, date.v.d) + (mins \div 1440)
                  civil == CivilFromDays(day)
              IN IF h > 23 \/ mi > 59 \/ s > 59 THEN Err("Custom", "datetime")
                 ELSE Ok([y |-> civil.y, m |-> civil.m, d |-> civil.d,
                          h |-> (mins % 1440) \div 60, mi |-> mins % 60, s |-> s])

(***************************************************************************)
(* Values in memory.  String: the JSON string's content; f64: [c, v] with  *)
(* c the class ("fin", "nan", "inf") and v the value in tenths; i32, i64:  *)
(* an integer; bool: a boolean; an enum: the variant's identifier; a       *)
(* struct: a function from field identifiers; an untagged enum:            *)
(* [variant, v]; Option: <<>> or <<x>>; Vec: a sequence.                   *)
(***************************************************************************)
None == <<>>
Some(x) == <<x>>
\* f itself, with every element evaluated
Evaluated(f) == f @@ <<>>
Fin(n) == [c |-> "fin", v |-> n]
NaN == [c |-> "nan", v |-> 0]
Infinity == [c |-> "inf", v |-> 0]

IsOptional(f) == f.shape \in {"opt", "optvec"}
\* whether an absent Option is left out: the field's own skip_serializing_if,
\* or the container's #[skip_serializing_none]
NeverSkipped(T, f) == FALSE
SkippedIfNone(T, f) == f.skip \/ (Structs[T].skipNone /\ IsOptional(f))

\* serde_json writes a finite f64 as a number and any other f64 as null
SerializeF64(x) == IF x.c = "fin" THEN JNum(TRUE, x.v) ELSE JNull

RECURSIVE Serialize(_, _)
SerializeField(f, x) ==
    CASE f.shape = "req" -> Serialize(f.base, x)
      [] f.shape = "opt" -> IF x = None THEN JNull ELSE Serialize(f.base, x[1])
      [] f.shape = "vec" -> JList(Evaluated([i \in 1..Len(x) |-> Serialize(f.base, x[i])]))
      [] f.shape = "optvec" ->
           IF x = None THEN JNull
           ELSE JList(Evaluated([i \in 1..Len(x[1]) |-> Serialize(f.base, x[1][i])]))
\* a writer that drops each omitted member as Vec::swap_remove does: the
\* last member takes its place
RECURSIVE SwapRemoved(_, _)
SwapRemoved(ms, i) ==
    IF i > Len(ms) THEN ms
    ELSE IF ~ms[i].gone THEN SwapRemoved(ms, i + 1)
    ELSE IF i = Len(ms) THEN SubSeq(ms, 1, i - 1)
    ELSE SwapRemoved([SubSeq(ms, 1, Len(ms) - 1) EXCEPT ![i] = ms[Len(ms)]], i)
SerializeStructSwapRemove(T, x) ==
    LET fs == FieldsOf(T)
        all == [i \in 1..Len(fs) |->
                  [gone |-> SkippedIfNone(T, fs[i]) /\ x[fs[i].name] = None,
                   m |-> Member(WireKey(fs[i]), SerializeField(fs[i], x[fs[i].name]))]]
        kept == SwapRemoved(all, 1)
    IN JMap(Evaluated([i \in 1..Len(kept) |-> kept[i].m]))
\* the derive's Serialize for a struct: the fields in declaration order
SerializeStruct(T, x) ==
    LET written == SelectSeq(FieldsOf(T),
                             LAMBDA f : ~(SkippedIfNone(T, f) /\ x[f.name] = None))
    IN JMap(Evaluated([i \in 1..Len(written) |->
               Member(WireKey(written[i]), SerializeField(written[i], x[written[i].name]))]))
\* serde(untagged): the held variant's own form, no tag
SerializeUntagged(T, x) ==
    LET i == CHOOSE i \in 1..Len(Untagged[T]) : Untagged[T][i].variant = x.variant
    IN Serialize(Untagged[T][i].of, x.v)
Serialize(T, x) ==
    CASE T = "String" -> x
      [] T = "f64" -> SerializeF64(x)
      [] T \in {"i32", "i64"} -> JNum(FALSE, x)
      [] T = "bool" -> JBool(x)
      [] T = "NaiveDate" -> JTxt(FormatDate(x))
      [] T = "DateTime<Utc>" -> JTxt(FormatDateTime(x))
      [] IsEnum(T) -> JStr(VariantTag(T, x))
      [] IsUntagged(T) -> SerializeUntagged(T, x)
      [] IsStruct(T) -> SerializeStruct(T, x)

(***************************************************************************)
(* Deserialize.  The error kinds are serde's: MissingField (missing_field),*)
(* TypeMismatch (invalid_type), UnknownEnumTag (unknown_variant),          *)
(* AmbiguousUnion ("data did not match any variant of untagged enum"),     *)
(* InvalidLength, DuplicateField, and Custom (a text chrono cannot parse). *)
(***************************************************************************)
\* the first error of a sequence of results, or the sequence of the values
Collect(results) ==
    LET rs == Evaluated(results)
        bad == {i \in 1..Len(rs) : ~rs[i].ok}
    IN IF bad # {} THEN rs[CHOOSE i \in bad : \A h \in bad : i <= h]
       ELSE Ok(Evaluated([i \in 1..Len(rs) |-> rs[i].v]))
Wrap(r) == IF r.ok THEN Ok(Some(r.v)) ELSE r

\* a reader that falls back to the first variant on a tag it does not know
\* (what a #[serde(other)] first variant would do; no enum here has one)
DeserializeEnumDefaulting(T, j) ==
    LET hit == {v \in VariantsOf(T) : j.t = "str" /\ VariantTag(T, v) = j.v}
    IN IF j.t # "str" THEN Err("TypeMismatch", "enum")
       ELSE IF hit # {} THEN Ok(CHOOSE v \in hit : TRUE)
       ELSE Ok(Enums[T].variants[1])

\* the derive's Deserialize for an enum of unit variants: the string must
\* be a variant's tag (unknown_variant otherwise); the map form {"tag": null}
\* is read too
DeserializeEnum(T, j) ==
    LET hit(s) == {v \in VariantsOf(T) : VariantTag(T, v) = s}
    IN CASE j.t = "str" ->
              IF hit(j.v) # {} THEN Ok(CHOOSE v \in hit(j.v) : TRUE)
              ELSE Err("UnknownEnumTag", j.v)
         [] j.t = "txt" -> Err("UnknownEnumTag", "text")
         [] j.t = "map" /\ Len(j.v) = 1 ->
              IF hit(j.v[1].k) = {} THEN Err("UnknownEnumTag", j.v[1].k)
              ELSE IF j.v[1].v.t = "null" THEN Ok(CHOOSE v \in hit(j.v[1].k) : TRUE)
              ELSE Err("TypeMismatch", "unit variant")
         [] OTHER -> Err("TypeMismatch", "enum")

RECURSIVE Deserialize(_, _)
DeserializeVec(T, j) ==
    IF j.t # "list" THEN Err("TypeMismatch", "sequence")
    ELSE Collect([i \in 1..Len(j.v) |-> Deserialize(T, j.v[i])])
\* a reader that hands a null to the inner type of an Option, which
\* refuses it (what a deserialize_with on the inner type does)
DeserializeFieldNullRefused(f, j) ==
    CASE f.shape \in {"req", "opt"} ->
           IF f.shape = "opt" THEN Wrap(Deserialize(f.base, j)) ELSE Deserialize(f.base, j)
      [] f.shape = "vec" -> DeserializeVec(f.base, j)
      [] f.shape = "optvec" -> Wrap(DeserializeVec(f.base, j))
\* a field's value: an Option reads null as None, anything else as Some
DeserializeField(f, j) ==
    CASE f.shape = "req" -> Deserialize(f.base, j)
      [] f.shape = "opt" -> IF j.t = "null" THEN Ok(None) ELSE Wrap(Deserialize(f.base, j))
      [] f.shape = "vec" -> DeserializeVec(f.base, j)
      [] f.shape = "optvec" -> IF j.t = "null" THEN Ok(None) ELSE Wrap(DeserializeVec(f.base, j))
\* what a field without a member gets: None for an Option, the default
\* function's value when there is one, else missing_field
MissingNeverAnError(f) ==
    IF f.hasDflt THEN Ok(f.dflt) ELSE Ok(None)
Missing(f) ==
    IF f.hasDflt THEN Ok(f.dflt)
    ELSE IF IsOptional(f) THEN Ok(None)
    ELSE Err("MissingField", WireKey(f))
\* what a member under a key no field has gets: the derive reads it as
\* IgnoredAny, since no struct of the crate carries deny_unknown_fields
UnknownKeyDenied(T, k) == Err("UnknownField", k)
UnknownKey(T, k) == Ok(None)
\* the derive's visit_map: the members in the order of the input, unknown
\* keys ignored, then the fields no member named
DeserializeMap(T, j) ==
    LET fs == FieldsOf(T)
        ix(k) == {i \in 1..Len(fs) : WireKey(fs[i]) = k}
        seen(n) == \E h \in 1..(n - 1) : j.v[h].k = j.v[n].k
        members == Evaluated([n \in 1..Len(j.v) |->
                      IF ix(j.v[n].k) = {} THEN UnknownKey(T, j.v[n].k)
                      ELSE IF seen(n) THEN Err("DuplicateField", j.v[n].k)
                      ELSE DeserializeField(fs[CHOOSE i \in ix(j.v[n].k) : TRUE], j.v[n].v)])
        at(i) == {n \in 1..Len(j.v) : j.v[n].k = WireKey(fs[i])}
        fields == [i \in 1..Len(fs) |->
                      IF at(i) = {} THEN Missing(fs[i])
                      ELSE members[CHOOSE n \in at(i) : TRUE]]
        read == Collect(members)
        all == Collect(fields)
    IN IF ~read.ok THEN read
       ELSE IF ~all.ok THEN all
       ELSE Ok(Evaluated([n \in {fs[i].name : i \in 1..Len(fs)} |->
                 all.v[CHOOSE i \in 1..Len(fs) : fs[i].name = n]]))
\* the derive's visit_seq: the fields by position
DeserializeSeq(T, j) ==
    LET fs == FieldsOf(T)
        fields == [i \in 1..Len(fs) |->
                      IF i <= Len(j.v) THEN DeserializeField(fs[i], j.v[i])
                      ELSE IF fs[i].hasDflt THEN Ok(fs[i].dflt)
                      ELSE Err("InvalidLength", T)]
        all == Collect(fields)
    IN IF ~all.ok THEN all
       ELSE IF Len(j.v) > Len(fs) THEN Err("InvalidLength", T)
       ELSE Ok(Evaluated([n \in {fs[i].name : i \in 1..Len(fs)} |->
                 all.v[CHOOSE i \in 1..Len(fs) : fs[i].name = n]]))
DeserializeStruct(T, j) ==
    CASE j.t = "map" -> DeserializeMap(T, j)
      [] j.t = "list" -> DeserializeSeq(T, j)
      [] OTHER -> Err("TypeMismatch", T)
\* serde(untagged): each variant in declaration order against the buffered
\* value; the first that deserializes wins, and the errors of the others are
\* dropped
DeserializeUntagged(T, j) ==
    LET vs == Untagged[T]
        rs == Evaluated([i \in 1..Len(vs) |-> Deserialize(vs[i].of, j)])
        good == {i \in 1..Len(vs) : rs[i].ok}
    IN IF good = {} THEN Err("AmbiguousUnion", T)
       ELSE LET i == CHOOSE i \in good : \A h \in good : i <= h
            IN Ok([variant |-> vs[i].variant, v |-> rs[i].v])
Deserialize(T, j) ==
    CASE T = "String" -> IF j.t \in {"str", "txt"} THEN Ok(j) ELSE Err("TypeMismatch", "string")
      [] T = "f64" ->
           IF j.t = "num" THEN Ok(Fin(IF j.f THEN j.v ELSE 10 * j.v))
           ELSE Err("TypeMismatch", "f64")
      [] T \in {"i32", "i64"} ->
           IF j.t = "num" /\ ~j.f
           THEN Ok(j.v)
           ELSE Err("TypeMismatch", T)
      [] T = "bool" -> IF j.t = "bool" THEN Ok(j.v) ELSE Err("TypeMismatch", "bool")
      [] T = "NaiveDate" ->
           CASE j.t = "txt" -> ParseDate(j.v)
             [] j.t = "str" -> Err("Custom", "date")
             [] OTHER -> Err("TypeMismatch", "date")
      [] T = "DateTime<Utc>" ->
           CASE j.t = "txt" -> ParseDateTime(j.v)
             [] j.t = "str" -> Err("Custom", "datetime")
             [] OTHER -> Err("TypeMismatch", "datetime")
      [] IsEnum(T) -> DeserializeEnum(T, j)
      [] IsUntagged(T) -> DeserializeUntagged(T, j)
      [] IsStruct(T) -> DeserializeStruct(T, j)

(***************************************************************************)
(* The values the callers construct.  The pools hold, besides ordinary     *)
(* values, the ones at the edge of each type: a NaN and an infinity, a     *)
(* year of five digits, a leap day.                                        *)
(***************************************************************************)
StrPool == <<JStr("Person"), JStr("Patient"), JStr("mg"), JStr("x")>>
FloatPool == <<Fin(50), Fin(5), NaN, Infinity, Fin(0 - 15)>>
IntPool == <<30, 0, 0 - 1, 7>>
DatePool == <<[y |-> 2024, m |-> 1, d |-> 1], [y |-> 2000, m |-> 2, d |-> 29],
              [y |-> 10000, m |-> 12, d |-> 31], [y |-> 0 - 1, m |-> 3, d |-> 5],
              [y |-> 999, m |-> 10, d |-> 9]>>
TimePool == <<[y |-> 2024, m |-> 1, d |-> 1, h |-> 12, mi |-> 30, s |-> 45],
              [y |-> 10000, m |-> 1, d |-> 1, h |-> 0, mi |-> 0, s |-> 0],
              [y |-> 1999, m |-> 12, d |-> 31, h |-> 23, mi |-> 59, s |-> 59]>>
Prefix(pool, n) == {pool[i] : i \in 1..(IF n < Len(pool) THEN n ELSE Len(pool))}

IsPrimitive(T) == T \in {"String", "f64", "i32", "i64", "bool", "NaiveDate", "DateTime<Utc>"}
PoolOf(T) ==
    CASE T = "String" -> Prefix(StrPool, NumStrings)
      [] T = "f64" -> Prefix(FloatPool, NumFloats)
      [] T \in {"i32", "i64"} -> Prefix(IntPool, NumInts)
      [] T = "bool" -> {TRUE, FALSE}
      [] T = "NaiveDate" -> Prefix(DatePool, NumDates)
      [] T = "DateTime<Utc>" -> Prefix(TimePool, NumTimes)
First(T) ==
    CASE T = "String" -> StrPool[1]
      [] T = "f64" -> FloatPool[1]
      [] T \in {"i32", "i64"} -> IntPool[1]
      [] T = "bool" -> TRUE
      [] T = "NaiveDate" -> DatePool[1]
      [] T = "DateTime<Utc>" -> TimePool[1]
Last(T) ==
    CASE T = "String" -> StrPool[NumStrings]
      [] T = "f64" -> FloatPool[NumFloats]
      [] T \in {"i32", "i64"} -> IntPool[NumInts]
      [] T = "bool" -> FALSE
      [] T = "NaiveDate" -> DatePool[NumDates]
      [] T = "DateTime<Utc>" -> TimePool[NumTimes]

\* one value of a type: "min" has every Option absent and every Vec empty,
\* "max" has every Option present with ordinary contents, "alt" is "max"
\* with another variant of each untagged enum, "edge" has every Option
\* present with the contents at the edge of their types
RECURSIVE Sample(_, _)
SampleField(f, which) ==
    LET x == Sample(f.base, which)
        xs == Evaluated([i \in 1..MaxVecLen |-> x])
    IN CASE f.shape = "req" -> x
         [] f.shape = "opt" -> IF which = "min" THEN None ELSE Some(x)
         [] f.shape = "vec" -> IF which = "min" THEN <<>> ELSE xs
         [] f.shape = "optvec" -> IF which = "min" THEN None ELSE Some(xs)
Sample(T, which) ==
    CASE IsPrimitive(T) -> IF which = "edge" THEN Last(T) ELSE First(T)
      [] IsEnum(T) ->
           IF which = "edge" THEN Enums[T].variants[Len(Enums[T].variants)]
           ELSE Enums[T].variants[1]
      [] IsUntagged(T) ->
           LET i == CASE which = "min" -> 3 [] which = "alt" -> 2 [] OTHER -> 1
           IN [variant |-> Untagged[T][i].variant, v |-> Sample(Untagged[T][i].of, which)]
      [] IsStruct(T) ->
           Evaluated([n \in {FieldsOf(T)[i].name : i \in 1..Len(FieldsOf(T))} |->
              SampleField(FieldsOf(T)[CHOOSE i \in 1..Len(FieldsOf(T)) :
                                         FieldsOf(T)[i].name = n], which)])
Samples(T) == {Sample(T, w) : w \in {"min", "max", "alt", "edge"}}

\* the values a field ranges over
DomainOf(T) ==
    CASE IsPrimitive(T) -> PoolOf(T)
      [] IsEnum(T) -> VariantsOf(T)
      [] IsUntagged(T) ->
           UNION {{[variant |-> Untagged[T][i].variant, v |-> x] :
                     x \in (IF IsPrimitive(Untagged[T][i].of)
                            THEN PoolOf(Untagged[T][i].of)
                            ELSE Samples(Untagged[T][i].of))} :
                  i \in 1..Len(Untagged[T])}
      [] IsStruct(T) -> Samples(T)
VecsOf(T) ==
    {<<>>} \cup {<<x>> : x \in DomainOf(T)}
    \cup {Evaluated([i \in 1..n |-> Sample(T, "max")]) : n \in 2..MaxVecLen}
FieldDomain(f) ==
    CASE f.shape = "req" -> DomainOf(f.base)
      [] f.shape = "opt" -> {None} \cup {Some(x) : x \in DomainOf(f.base)}
      [] f.shape = "vec" -> VecsOf(f.base)
      [] f.shape = "optvec" -> {None} \cup {Some(xs) : xs \in VecsOf(f.base)}

\* the values of a struct: every set of Options present or absent, and
\* every value of every field within an otherwise fixed value
StructValues(T) ==
    LET fs == FieldsOf(T)
        opts == {i \in 1..Len(fs) : IsOptional(fs[i])}
        full == Sample(T, "max")
        presence == {Evaluated([n \in DOMAIN full |->
                        LET i == CHOOSE i \in 1..Len(fs) : fs[i].name = n
                        IN IF i \in opts /\ i \notin P THEN None ELSE full[n]]) :
                     P \in SUBSET opts}
        \* one field at a time
        varied == UNION {{[b EXCEPT ![fs[i].name] = x] :
                            b \in {Sample(T, "min"), full}, x \in FieldDomain(fs[i])} :
                         i \in 1..Len(fs)}
    IN presence \cup varied
Roots == DOMAIN Structs \cup DOMAIN Enums \cup DOMAIN Untagged
SamplesOf == [T \in Roots |-> IF IsStruct(T) THEN Samples(T) ELSE DomainOf(T)]
ValuesOf == [T \in Roots |-> IF IsStruct(T) THEN StructValues(T) ELSE DomainOf(T)]
FullOf == [T \in DOMAIN Structs |-> Sample(T, "max")]

(***************************************************************************)
(* The texts other producers send.                                         *)
(***************************************************************************)
Without(j, k) == JMap(SelectSeq(j.v, LAMBDA m : m.k # k))
Replace(j, k, x) == JMap([i \in 1..Len(j.v) |-> IF j.v[i].k = k THEN Member(k, x) ELSE j.v[i]])

\* keys no struct of the schema declares
ExtraPool == <<Member("extra", JNum(FALSE, 1)),
               Member("zzz", JMap(<<Member("value", JStr("v"))>>)),
               Member("x-note", JNull)>>
ExtraMembers == [i \in 1..(IF NumExtraKeys < 3 THEN NumExtraKeys ELSE 3) |-> ExtraPool[i]]
\* j with the unknown keys added to its root object, or (deep) to every
\* object in it: the first in front of the object's members, the others behind
RECURSIVE WithUnknown(_, _)
WithUnknown(j, deep) ==
    CASE j.t = "map" ->
           JMap(<<ExtraMembers[1]>>
                \o [i \in 1..Len(j.v) |->
                      IF deep THEN Member(j.v[i].k, WithUnknown(j.v[i].v, deep)) ELSE j.v[i]]
                \o Tail(ExtraMembers))
      [] j.t = "list" ->
           IF deep THEN JList([i \in 1..Len(j.v) |-> WithUnknown(j.v[i], deep)]) ELSE j
      [] OTHER -> j

\* strings in the place of a tag of enum E: two words foreign to most
\* enums, E's identifiers as declared, and their lowercase forms
TagTexts(E) == {"spouse", "self"} \cup VariantsOf(E) \cup {ToLower[v] : v \in VariantsOf(E)}

\* the definition of the crate root that goes by the same name as a
\* definition of the modules
Counterpart ==
    "ReferenceRange" :> "lib::ReferenceRange" @@ "Identifier" :> "lib::Identifier" @@
    "HumanName" :> "lib::HumanName" @@ "ContactPoint" :> "lib::ContactPoint" @@
    "Address" :> "lib::Address" @@ "Period" :> "lib::Period" @@
    "Modality" :> "lib::Modality" @@ "Route" :> "lib::Route" @@
    "ClinicalSummary" :> "lib::ClinicalSummary" @@ "Person" :> "lib::HealthPerson" @@
    "LabResult" :> "lib::LabResult" @@ "Specimen" :> "lib::Specimen" @@
    "Facility" :> "lib::Facility" @@ "LabReport" :> "lib::LabReport" @@
    "Attachment" :> "lib::Attachment" @@ "RadiationDose" :> "lib::RadiationDose" @@
    "Performer" :> "lib::Performer" @@ "ImagingReport" :> "lib::ImagingReport" @@
    "Dosage" :> "lib::Dosage" @@ "MedicationRecord" :> "lib::MedicationRecord" @@
    "FamilyMember" :> "lib::FamilyMember" @@ "FamilyHealthTree" :> "lib::FamilyHealthTree"
\* the other definition of the same schema: the crate root's for a module's,
\* a module's for the crate root's
Others(T) ==
    (IF T \in DOMAIN Counterpart THEN {Counterpart[T]} ELSE {})
    \cup {S \in DOMAIN Counterpart : Counterpart[S] = T}
ReadersOf(T) == {T} \cup (IF T \in DOMAIN Counterpart THEN {Counterpart[T]} ELSE {})

\* texts in the place of a lab value: scalars, lists, and objects over the
\* keys of Quantity and CodeableConcept and a foreign key, some with a key
\* written twice
GoodCoding == JMap(<<Member("system", JStr("http://loinc.org")), Member("code", JStr("1234-5"))>>)
BadCoding == JMap(<<Member("system", JStr("http://loinc.org"))>>)
LabKeyChoices ==
    <<[k |-> "value", xs |-> <<JNum(TRUE, 50), JStr("5")>>],
      [k |-> "unit", xs |-> <<JStr("mg"), JNum(FALSE, 1)>>],
      [k |-> "coding", xs |-> <<JList(<<GoodCoding>>), JList(<<BadCoding>>), JStr("1234-5")>>],
      [k |-> "text", xs |-> <<JStr("Positive"), JNum(FALSE, 1)>>],
      [k |-> "foo", xs |-> <<JNum(FALSE, 1)>>]>>
RECURSIVE LabObjects(_)
LabObjects(n) ==
    IF n = 0 THEN {<<>>}
    ELSE LET c == LabKeyChoices[n]
         IN LabObjects(n - 1)
            \cup {ms \o <<Member(c.k, c.xs[i])>> : ms \in LabObjects(n - 1), i \in 1..Len(c.xs)}
LabShapes ==
    {JMap(ms) : ms \in LabObjects(Len(LabKeyChoices))}
    \cup {JMap(<<Member("value", JNum(FALSE, 5)), Member("unit", JStr("mg"))>>),
          JMap(<<Member("coding", JList(<<>>))>>),
          JMap(<<Member("coding", JList(<<GoodCoding>>)), Member("text", JNull)>>),
          JMap(<<Member("unit", JStr("mg")), Member("value", JNum(TRUE, 50))>>),
          JMap(<<Member("value", JNull), Member("unit", JStr("mg"))>>),
          JMap(<<Member("value", JNum(TRUE, 50)), Member("unit", JStr("mg")),
                 Member("value", JNum(TRUE, 60))>>),
          JMap(<<Member("value", JNum(TRUE, 50)), Member("unit", JStr("mg")),
                 Member("value", JNum(TRUE, 60)), Member("coding", JList(<<>>))>>),
          JMap(<<Member("coding", JList(<<GoodCoding>>)), Member("text", JStr("Positive")),
                 Member("text", JStr("Positive"))>>)}
    \cup {JStr("Positive"), JTxt(<<"2", "0", "2", "4">>), JNum(TRUE, 50), JNum(FALSE, 5),
          JBool(TRUE), JNull, JList(<<>>), JList(<<JNum(TRUE, 50)>>),
          JList(<<JNum(TRUE, 50), JStr("mg")>>),
          JList(<<JNum(TRUE, 50), JStr("mg"), JNum(FALSE, 1)>>),
          JList(<<JStr("mg"), JNum(TRUE, 50)>>),
          JList(<<JList(<<GoodCoding>>), JNull>>),
          JList(<<JList(<<>>), JStr("Positive")>>),
          JList(<<JList(<<GoodCoding>>)>>)}

(***************************************************************************)
(* The library in use: a caller constructs a value and encodes it, or      *)
(* takes a text from elsewhere, and decodes.                               *)
(***************************************************************************)
VARIABLES
    ty,     \* the type the caller names
    mem,    \* the value in memory
    wire,   \* the JSON text
    res,    \* what decode returned
    how,    \* how a text from elsewhere differs from a text of the library
    arg,    \* the key that difference is about
    base,   \* the text of the library it was made from
    pc      \* "idle", "built", "encoded", "roundtrip", "received", "decoded",
            \* "normal", "renormal"
vars == <<ty, mem, wire, res, how, arg, base, pc>>

Nothing == [t |-> "nothing"]

Init ==
    /\ ty = "" /\ mem = Nothing /\ wire = Nothing /\ res = Nothing
    /\ how = "" /\ arg = "" /\ base = Nothing /\ pc = "idle"

\* a caller builds a value of type T
Construct(T, x) ==
    /\ pc = "idle"
    /\ ty' = T /\ mem' = x /\ pc' = "built"
    /\ UNCHANGED <<wire, res, how, arg, base>>

\* Person::default()
PersonDefault ==
    [id |-> JStr(""), resource_type |-> JStr("Person"), name |-> <<>>,
     birth_date |-> [y |-> 2000, m |-> 1, d |-> 1], identifier |-> None,
     gender |-> None, telecom |-> None, address |-> None, marital_status |-> None,
     language |-> None, clinical_summary |-> None]
Default ==
    /\ pc = "idle"
    /\ ty' = "Person" /\ mem' = PersonDefault /\ pc' = "built"
    /\ UNCHANGED <<wire, res, how, arg, base>>

\* serde_json::to_string
Encode ==
    /\ pc = "built"
    /\ wire' = Serialize(ty, mem) /\ pc' = "encoded"
    /\ UNCHANGED <<ty, mem, res, how, arg, base>>

\* serde_json::from_str on the text just written
DecodeBack ==
    /\ pc = "encoded"
    /\ res' = Deserialize(ty, wire) /\ pc' = "roundtrip"
    /\ UNCHANGED <<ty, mem, wire, how, arg, base>>

\* the text reaches a reader R changed on its way: j in the place of `wire`
Receive(R, j, h, a) ==
    /\ ty' = R /\ wire' = j /\ how' = h /\ arg' = a /\ base' = wire /\ pc' = "received"
    /\ UNCHANGED <<mem, res>>

\* a newer producer's text: unknown keys beside the known ones, in the root
\* object or (deep) in every object
ReceiveExtra ==
    /\ pc = "encoded"
    /\ \E deep \in BOOLEAN :
         LET w == WithUnknown(wire, deep)
         IN /\ w # wire
            /\ Receive(ty, w, IF deep THEN "extra-deep" ELSE "extra", "")

\* a text that lacks the key of one field that is no Option
ReceiveWithout ==
    /\ pc = "encoded" /\ IsStruct(ty)
    /\ \E i \in 1..Len(FieldsOf(ty)) :
         /\ ~IsOptional(FieldsOf(ty)[i])
         /\ Receive(ty, Without(wire, WireKey(FieldsOf(ty)[i])), "without",
                    WireKey(FieldsOf(ty)[i]))

\* a string read as an enum
ReceiveTag ==
    /\ pc = "idle"
    /\ \E E \in DOMAIN Enums : \E s \in TagTexts(E) :
         /\ ty' = E /\ wire' = JStr(s) /\ how' = "tag" /\ arg' = ""
         /\ base' = JStr(s) /\ pc' = "received"
         /\ UNCHANGED <<mem, res>>

\* a text of a struct of the modules with some string where the struct
\* declares an enum, read by either definition of the struct
ReceiveTagIn ==
    /\ pc = "encoded" /\ ty \in DOMAIN StrictStructs /\ mem = FullOf[ty]
    /\ \E i \in 1..Len(FieldsOf(ty)) : \E R \in ReadersOf(ty) :
         LET f == FieldsOf(ty)[i]
         IN /\ IsEnum(f.base) /\ HasKey(wire, WireKey(f))
            /\ \E s \in TagTexts(f.base) :
                 Receive(R, Replace(wire, WireKey(f), JStr(s)), "tag-in", WireKey(f))

\* a text of any shape read as a lab value
ReceiveLabValue ==
    /\ pc = "idle"
    /\ \E j \in LabShapes : \E T \in DOMAIN Untagged :
         /\ ty' = T /\ wire' = j /\ how' = "shape" /\ arg' = ""
         /\ base' = j /\ pc' = "received"
         /\ UNCHANGED <<mem, res>>

\* a text of any shape as the value of a LabResult
ReceiveLabResult ==
    /\ pc = "encoded" /\ ty = "LabResult" /\ mem = FullOf[ty]
    /\ \E j \in LabShapes : \E R \in ReadersOf(ty) :
         /\ ty' = R /\ wire' = Replace(wire, "value", j) /\ how' = "shape-in"
         /\ arg' = "value" /\ base' = j /\ pc' = "received"
         /\ UNCHANGED <<mem, res>>

\* the text just written reaches the other definition of the schema
ReceiveByOther ==
    /\ pc = "encoded"
    /\ \E R \in Others(ty) : Receive(R, wire, "transcode", ty)

\* a text that writes the key of an Option with an explicit null, in front
\* of the other members
ReceiveNull ==
    /\ pc = "encoded" /\ IsStruct(ty)
    /\ \E i \in 1..Len(FieldsOf(ty)) :
         LET k == WireKey(FieldsOf(ty)[i])
             absent == Without(wire, k)
         IN /\ IsOptional(FieldsOf(ty)[i])
            /\ ty' = ty /\ wire' = JMap(<<Member(k, JNull)>> \o absent.v)
            /\ how' = "null" /\ arg' = k /\ base' = absent /\ pc' = "received"
            /\ UNCHANGED <<mem, res>>

\* serde_json::from_str on a text from elsewhere
Decode ==
    /\ pc = "received"
    /\ res' = Deserialize(ty, wire) /\ pc' = "decoded"
    /\ UNCHANGED <<ty, mem, wire, how, arg, base>>

\* the value read is written again: encode(decode(t))
Normalise ==
    /\ pc = "decoded" /\ res.ok
    /\ wire' = Serialize(ty, res.v) /\ base' = wire /\ pc' = "normal"
    /\ UNCHANGED <<ty, mem, res, how, arg>>

\* and that text is read and written once more
Renormalise ==
    /\ pc = "normal"
    /\ res' = Deserialize(ty, wire)
    /\ wire' = (IF res'.ok THEN Serialize(ty, res'.v) ELSE wire)
    /\ base' = wire /\ pc' = "renormal"
    /\ UNCHANGED <<ty, mem, how, arg>>

Next ==
    \/ \E T \in Roots : \E x \in ValuesOf[T] : Construct(T, x)
    \/ Default
    \/ Encode
    \/ DecodeBack
    \/ ReceiveExtra
    \/ ReceiveWithout
    \/ ReceiveTag
    \/ ReceiveTagIn
    \/ ReceiveLabValue
    \/ ReceiveLabResult
    \/ ReceiveByOther
    \/ ReceiveNull
    \/ Decode
    \/ Normalise
    \/ Renormalise

Spec == Init /\ [][Next]_vars

(***************************************************************************)
(* Properties.                                                             *)
(***************************************************************************)
Entities == {"Person", "LabReport", "ImagingReport", "MedicationRecord", "FamilyHealthTree"}
StrictTypes == DOMAIN StrictStructs \cup DOMAIN Enums \cup {"LabValue"}

\* every f64 in value x of type T is a finite number
RECURSIVE Finite(_, _)
FiniteField(f, x) ==
    CASE f.shape = "req" -> Finite(f.base, x)
      [] f.shape = "opt" -> x = None \/ Finite(f.base, x[1])
      [] f.shape = "vec" -> \A i \in 1..Len(x) : Finite(f.base, x[i])
      [] f.shape = "optvec" -> x = None \/ \A i \in 1..Len(x[1]) : Finite(f.base, x[1][i])
Finite(T, x) ==
    CASE T = "f64" -> x.c = "fin"
      [] IsStruct(T) ->
           \A i \in 1..Len(FieldsOf(T)) : FiniteField(FieldsOf(T)[i], x[FieldsOf(T)[i].name])
      [] IsUntagged(T) ->
           \A i \in 1..Len(Untagged[T]) :
              Untagged[T][i].variant = x.variant => Finite(Untagged[T][i].of, x.v)
      [] OTHER -> TRUE

C1_WitnessNotFinite ==
    /\ pc = "roundtrip" /\ ty = "MedicationRecord" /\ ~res.ok
    /\ mem["dosage"]["value"].c # "fin"

(***************************************************************************)
(* C2: the lab value.                                                      *)
(***************************************************************************)
IsText(j) == j.t \in {"str", "txt"}
QuantityShape(j) ==
    /\ j.t = "map"
    /\ HasKey(j, "value") /\ Get(j, "value").t = "num"
    /\ HasKey(j, "unit") /\ IsText(Get(j, "unit"))
ConceptShape(j) ==
    /\ j.t = "map" /\ ~QuantityShape(j)
    /\ HasKey(j, "coding") /\ Get(j, "coding").t = "list"
\* a concept shape whose members are themselves of the documented shape
WellFormedConcept(j) ==
    /\ ConceptShape(j)
    /\ \A i \in 1..Len(Get(j, "coding").v) : Get(j, "coding").v[i] = GoodCoding
    /\ HasKey(j, "text") => (IsText(Get(j, "text")) \/ Get(j, "text") = JNull)
\* what decode made of the lab value, alone or as LabResult.value
LabRead ==
    IF how = "shape-in" /\ res.ok THEN Ok(res.v["value"]) ELSE res

\* C2, as stated: a plain string decodes to the string variant; a mapping
\* with a numeric `value` and a string `unit` to Quantity; a mapping with a
\* `coding` sequence that is no Quantity to CodeableConcept; every other
\* shape (a number, a list, a mapping without these keys) fails with
\* AmbiguousUnion.
C2_Disambiguation ==
    pc = "decoded" /\ how \in {"shape", "shape-in"} =>
        /\ IsText(base) =>
              LabRead.ok /\ LabRead.v.variant \in {"String", "Text"} /\ LabRead.v.v = base
        /\ QuantityShape(base) => LabRead.ok /\ LabRead.v.variant = "Quantity"
        /\ WellFormedConcept(base) =>
              LabRead.ok /\ LabRead.v.variant \in {"Concept", "CodeableConcept"}
        /\ ~(IsText(base) \/ QuantityShape(base) \/ ConceptShape(base)) =>
              ~LabRead.ok /\ LabRead.kind = "AmbiguousUnion"

\* no key of the object is written twice
NoRepeatedKey(j) ==
    j.t = "map" => \A i, h \in 1..Len(j.v) : j.v[i].k = j.v[h].k => i = h

\* C2 with the lists and the repeated keys left out: the claim as stated
\* holds of every text that is no list and writes no key twice
C2_DisambiguationButLists ==
    base.t # "list" /\ NoRepeatedKey(base) => C2_Disambiguation

(***************************************************************************)
(* C3, C4.                                                                 *)
(***************************************************************************)
\* C3: encoding a value whose optional field is absent emits neither that
\* field's key nor a null for it, for every struct of the crate.
C3_Omission ==
    pc = "encoded" /\ IsStruct(ty) =>
        \A i \in 1..Len(FieldsOf(ty)) :
           LET f == FieldsOf(ty)[i]
           IN IsOptional(f) /\ mem[f.name] = None => ~HasKey(wire, WireKey(f))

\* a MedicationRecord without frequency has been encoded, without the key
C3_Witness ==
    /\ pc = "encoded" /\ ty = "MedicationRecord"
    /\ mem["frequency"] = None /\ mem["instructions"] # None
    /\ ~HasKey(wire, "frequency") /\ HasKey(wire, "instructions")

\* C4: decoding a text with unknown keys (in the root object, in every
\* nested object, in the object of a lab value) gives what decoding the text
\* without them gives, and succeeds where that text is the encoding of a
\* value with finite numbers.
C4_ForwardCompatible ==
    pc = "decoded" /\ how \in {"extra", "extra-deep"} =>
        /\ res = Deserialize(ty, base)
        /\ Finite(ty, mem) => res = Ok(mem)

\* a LabResult whose Quantity carries unknown keys has been decoded
C4_Witness ==
    /\ pc = "decoded" /\ how = "extra-deep" /\ ty = "LabResult" /\ res.ok
    /\ res.v["value"].variant = "Quantity"
    /\ HasKey(Get(wire, "value"), "extra") /\ ~HasKey(Get(base, "value"), "extra")

(***************************************************************************)
(* C5: a mandatory field that is missing.                                  *)
(***************************************************************************)
\* C5, as stated: decoding a text that lacks a mandatory field fails with
\* MissingField naming the field's key, for every struct of the crate.
C5_MissingFieldEveryStruct ==
    pc = "decoded" /\ how = "without" /\ Deserialize(ty, base).ok =>
        res = Err("MissingField", arg)

\* C5, amended: decoding an otherwise valid text that lacks the key of a
\* field that is no Option fails with MissingField naming that key, except
\* for resourceType of the crate root's HealthPerson, which is then read as
\* "Person".
C5_MissingField ==
    pc = "decoded" /\ how = "without" /\ Deserialize(ty, base).ok =>
        IF ty = "lib::HealthPerson" /\ arg = "resourceType"
        THEN res.ok /\ res.v["resourceType"] = JStr("Person")
        ELSE res = Err("MissingField", arg)

\* a Person without birthDate has been refused
C5_Witness ==
    /\ pc = "decoded" /\ how = "without" /\ ty = "Person" /\ arg = "birthDate"
    /\ Deserialize(ty, base).ok /\ ~HasKey(wire, "birthDate")
    /\ res = Err("MissingField", "birthDate")

\* a HealthPerson without resourceType has been read
C5_WitnessDefaulted ==
    /\ pc = "decoded" /\ how = "without" /\ ty = "lib::HealthPerson"
    /\ arg = "resourceType" /\ ~HasKey(wire, "resourceType") /\ res.ok

(***************************************************************************)
(* C6, C7: the tags of the enums.                                          *)
(***************************************************************************)
\* the tags as the data model lists them: upper case for ModalityCode and
\* Interpretation, lower case for the others
DeclaredUpper == {"ModalityCode", "Interpretation"}
LowercaseTag(v) == IF v = "Self_" THEN "self" ELSE ToLower[v]
DeclaredTags(E) ==
    {IF E \in DeclaredUpper THEN v ELSE LowercaseTag(v) : v \in VariantsOf(E)}
\* the string in the place of the tag, and the enum it is read as
TagRead == IF how = "tag" THEN wire.v ELSE Get(wire, arg).v
StrictOf(R) ==
    IF R \in DOMAIN LooseStructs THEN CHOOSE T \in DOMAIN Counterpart : Counterpart[T] = R
    ELSE R
EnumRead ==
    IF how = "tag" THEN ty
    ELSE LET fs == FieldsOf(StrictOf(ty))
         IN fs[CHOOSE i \in 1..Len(fs) : WireKey(fs[i]) = arg].base

\* C6, as stated: a string that is not a declared tag is refused with
\* UnknownEnumTag wherever the schema has an enum, by every definition.
C6_UnknownTagEveryReader ==
    pc = "decoded" /\ how \in {"tag", "tag-in"} /\ TagRead \notin DeclaredTags(EnumRead) =>
        ~res.ok /\ res.kind = "UnknownEnumTag"

\* C6, amended: the definitions of the modules refuse a string that is not
\* a declared tag with UnknownEnumTag, and never replace it by a variant;
\* the definitions of the crate root hold these fields as strings (the use
\* of a name under the key use_) and accept any string.
C6_UnknownTag ==
    pc = "decoded" /\ how \in {"tag", "tag-in"} =>
        IF ty \in DOMAIN LooseStructs THEN res.ok
        ELSE IF TagRead \notin DeclaredTags(EnumRead) THEN res = Err("UnknownEnumTag", TagRead)
        ELSE res.ok

\* a HumanName with use "spouse" has been refused
C6_Witness ==
    /\ pc = "decoded" /\ how = "tag-in" /\ ty = "HumanName" /\ arg = "use"
    /\ Get(wire, "use") = JStr("spouse")
    /\ res = Err("UnknownEnumTag", "spouse")

\* C7, as stated: every variant of every enum is written as the lowercase
\* spelling of its tag, and only that spelling is read as the variant.
C7_LowercaseTags ==
    /\ pc = "encoded" /\ IsEnum(ty) => wire = JStr(LowercaseTag(mem))
    /\ pc = "decoded" /\ how = "tag" =>
          \A v \in VariantsOf(ty) : res = Ok(v) <=> wire.v = LowercaseTag(v)

\* C7, amended: every variant is written as its declared tag, in lower case
\* for NameUse, ContactSystem, ContactUse, Gender, Sex and RelationToProband
\* and in upper case, as declared, for ModalityCode and Interpretation, and
\* only that spelling is read as the variant.
C7_DeclaredTagSpelling ==
    /\ pc = "encoded" /\ IsEnum(ty) =>
          wire = JStr(IF ty \in DeclaredUpper THEN mem ELSE LowercaseTag(mem))
    /\ pc = "decoded" /\ how = "tag" =>
          \A v \in VariantsOf(ty) :
             res = Ok(v) <=> wire.v = (IF ty \in DeclaredUpper THEN v ELSE LowercaseTag(v))

\* "CT" has been read as ModalityCode::CT and "ct" has been refused
C7_Witness ==
    /\ pc = "decoded" /\ how = "tag" /\ ty = "ModalityCode"
    /\ wire = JStr("CT") /\ res = Ok("CT")
    /\ Deserialize("ModalityCode", JStr("ct")) = Err("UnknownEnumTag", "ct")

(***************************************************************************)
(* The camelCase form of an identifier, which the interchange contract     *)
(* gives as the rule for every key: the words between the underscores,     *)
(* each after the first with its first letter in upper case, joined.       *)
(***************************************************************************)
\* the identifiers of the crate that hold an underscore, split at it
SnakeWords ==
    "postal_code" :> <<"postal", "code">> @@
    "blood_type" :> <<"blood", "type">> @@
    "primary_care_provider" :> <<"primary", "care", "provider">> @@
    "resource_type" :> <<"resource", "type">> @@
    "birth_date" :> <<"birth", "date">> @@
    "marital_status" :> <<"marital", "status">> @@
    "clinical_summary" :> <<"clinical", "summary">> @@
    "specimen_type" :> <<"specimen", "type">> @@
    "collected_at" :> <<"collected", "at">> @@
    "reference_range" :> <<"reference", "range">> @@
    "patient_id" :> <<"patient", "id">> @@
    "issued_at" :> <<"issued", "at">> @@
    "ctdi_vol_mgy" :> <<"ctdi", "vol", "mgy">> @@
    "dlp_mgy_cm" :> <<"dlp", "mgy", "cm">> @@
    "attachment_type" :> <<"attachment", "type">> @@
    "body_site" :> <<"body", "site">> @@
    "reported_at" :> <<"reported", "at">> @@
    "study_instance_uid" :> <<"study", "instance", "uid">> @@
    "radiation_dose" :> <<"radiation", "dose">> @@
    "start_date" :> <<"start", "date">> @@
    "duration_days" :> <<"duration", "days">> @@
    "end_date" :> <<"end", "date">> @@
    "relation_to_proband" :> <<"relation", "to", "proband">> @@
    "birth_year" :> <<"birth", "year">> @@
    "proband_id" :> <<"proband", "id">> @@ "id_type" :> <<"id", "type">> @@
    "use_" :> <<"use">> @@ "ctdiVol_mGy" :> <<"ctdiVol", "mGy">> @@
    "dlp_mGy_cm" :> <<"dlp", "mGy", "cm">>
\* the first letter in upper case
Capitalized ==
    "code" :> "Code" @@ "type" :> "Type" @@ "care" :> "Care" @@
    "provider" :> "Provider" @@ "date" :> "Date" @@ "status" :> "Status" @@
    "summary" :> "Summary" @@ "at" :> "At" @@ "range" :> "Range" @@
    "id" :> "Id" @@ "vol" :> "Vol" @@ "mgy" :> "Mgy" @@ "cm" :> "Cm" @@
    "site" :> "Site" @@ "instance" :> "Instance" @@ "uid" :> "Uid" @@
    "dose" :> "Dose" @@ "days" :> "Days" @@ "to" :> "To" @@
    "proband" :> "Proband" @@ "year" :> "Year" @@ "mGy" :> "MGy"
RECURSIVE JoinCapitalized(_)
JoinCapitalized(ws) ==
    IF ws = <<>> THEN "" ELSE Capitalized[Head(ws)] \o JoinCapitalized(Tail(ws))
CamelCase(name) ==
    IF name \in DOMAIN SnakeWords
    THEN Head(SnakeWords[name]) \o JoinCapitalized(Tail(SnakeWords[name]))
    ELSE name

\* the key the contract gives a field: the camelCase form, `type` where the
\* identifier cannot be the reserved word, and ctdiVolMGy and dlpMGyCm for
\* the fields of RadiationDose
ClaimedKey(name) ==
    CASE name \in {"specimen_type", "attachment_type", "id_type"} -> "type"
      [] name = "ctdi_vol_mgy" -> "ctdiVolMGy"
      [] name = "dlp_mgy_cm" -> "dlpMGyCm"
      [] OTHER -> CamelCase(name)
\* the key the crate uses where that differs from the camelCase form
ActualKey(name) ==
    CASE name \in {"specimen_type", "attachment_type", "id_type"} -> "type"
      [] name = "ctdi_vol_mgy" -> "ctdiVol_mGy"
      [] name = "dlp_mgy_cm" -> "dlp_mGy_cm"
      [] name \in {"use_", "ctdiVol_mGy", "dlp_mGy_cm"} -> name
      [] OTHER -> CamelCase(name)
\* the fields of struct T that value x holds something for on the wire
Written(T, x) ==
    {i \in 1..Len(FieldsOf(T)) : ~(IsOptional(FieldsOf(T)[i]) /\ x[FieldsOf(T)[i].name] = None)}
\* the text holds exactly one member per written field, under the claimed
\* or the actual key of its name, and no two members under one key
KeyedBy(claimed) ==
    /\ Len(wire.v) = Cardinality(Written(ty, mem))
    /\ \A a, b \in 1..Len(wire.v) : wire.v[a].k = wire.v[b].k => a = b
    /\ \A i \in Written(ty, mem) :
          HasKey(wire, IF claimed THEN ClaimedKey(FieldsOf(ty)[i].name)
                       ELSE ActualKey(FieldsOf(ty)[i].name))

\* C8, as stated: each field of each record of the modules is written under
\* one key, distinct fields under distinct keys, and the key is the
\* camelCase form of the field's name, ctdiVolMGy and dlpMGyCm for
\* RadiationDose; decode reads the field under the same key.
C8_CamelCaseKeys ==
    pc = "encoded" /\ ty \in DOMAIN StrictStructs => KeyedBy(TRUE)

\* C8, amended: each field of each record is written under one key,
\* distinct fields under distinct keys; the key is the camelCase form of the
\* field's name except that RadiationDose's fields go under ctdiVol_mGy and
\* dlp_mGy_cm, that specimen_type, attachment_type and id_type go under
\* `type`, and that the crate root's use_ goes under use_; decode reads each
\* field under the key encode writes it under.
C8_WireKeys ==
    /\ pc = "encoded" /\ IsStruct(ty) => KeyedBy(FALSE)
    /\ pc = "roundtrip" /\ IsStruct(ty) /\ Finite(ty, mem) =>
          /\ res.ok
          /\ \A i \in 1..Len(FieldsOf(ty)) :
                res.v[FieldsOf(ty)[i].name] = mem[FieldsOf(ty)[i].name]

\* a RadiationDose has been written under ctdiVol_mGy and dlp_mGy_cm
C8_Witness ==
    /\ pc = "encoded" /\ ty = "RadiationDose"
    /\ mem["ctdi_vol_mgy"] # None /\ mem["dlp_mgy_cm"] # None
    /\ Keys(wire) = {"ctdiVol_mGy", "dlp_mGy_cm"}

(***************************************************************************)
(* C9: Person.resourceType.                                                *)
(***************************************************************************)
\* C9, as stated: every Person that decode returns, and the Person that
\* Person::default() returns, has resourceType "Person", and every encoded
\* Person carries resourceType "Person".
C9_ResourceTypeIsPerson ==
    /\ PersonDefault["resource_type"] = JStr("Person")
    /\ pc \in {"roundtrip", "decoded"} /\ ty = "Person" /\ res.ok =>
          res.v["resource_type"] = JStr("Person")
    /\ pc = "encoded" /\ ty = "Person" => Get(wire, "resourceType") = JStr("Person")

(***************************************************************************)
(* C10: dates and timestamps.                                              *)
(***************************************************************************)
\* cs is YYYY-MM-DD, and spells the date d
IsYMD(cs, d) ==
    /\ Len(cs) = 10 /\ cs[5] = "-" /\ cs[8] = "-"
    /\ AllDigits(SubSeq(cs, 1, 4)) /\ Number(SubSeq(cs, 1, 4)) = d.y
    /\ AllDigits(SubSeq(cs, 6, 7)) /\ Number(SubSeq(cs, 6, 7)) = d.m
    /\ AllDigits(SubSeq(cs, 9, 10)) /\ Number(SubSeq(cs, 9, 10)) = d.d
\* cs is a sign, a year of four digits or more, and -MM-DD, and spells d
IsSignedYMD(cs, d) ==
    /\ Len(cs) >= 11 /\ cs[1] = (IF d.y < 0 THEN "-" ELSE "+")
    /\ LET ys == SubSeq(cs, 2, Len(cs) - 6)
       IN AllDigits(ys) /\ Number(ys) = (IF d.y < 0 THEN 0 - d.y ELSE d.y)
    /\ LET md == SubSeq(cs, Len(cs) - 5, Len(cs))
       IN /\ md[1] = "-" /\ md[4] = "-"
          /\ AllDigits(SubSeq(md, 2, 3)) /\ Number(SubSeq(md, 2, 3)) = d.m
          /\ AllDigits(SubSeq(md, 5, 6)) /\ Number(SubSeq(md, 5, 6)) = d.d
\* cs is hh:mm:ss and a zone, "Z" or a signed hh:mm, and spells the time t
IsClockWithZone(cs, t) ==
    /\ Len(cs) >= 9 /\ cs[3] = ":" /\ cs[6] = ":"
    /\ AllDigits(SubSeq(cs, 1, 2)) /\ Number(SubSeq(cs, 1, 2)) = t.h
    /\ AllDigits(SubSeq(cs, 4, 5)) /\ Number(SubSeq(cs, 4, 5)) = t.mi
    /\ AllDigits(SubSeq(cs, 7, 8)) /\ Number(SubSeq(cs, 7, 8)) = t.s
    /\ LET zone == SubSeq(cs, 9, Len(cs))
       IN \/ zone = <<"Z">>
          \/ zone \in {<<"+", "0", "0", ":", "0", "0">>, <<"-", "0", "0", ":", "0", "0">>}
\* cs is a date (with a signed year, or YYYY-MM-DD), "T", and a clock
\* with a zone
IsTimestamp(signed, cs, t) ==
    \E n \in 1..Len(cs) :
       /\ cs[n] = "T"
       /\ IF signed THEN IsSignedYMD(SubSeq(cs, 1, n - 1), t)
          ELSE IsYMD(SubSeq(cs, 1, n - 1), t)
       /\ IsClockWithZone(SubSeq(cs, n + 1, Len(cs)), t)
InFourDigits(d) == 0 <= d.y /\ d.y <= 9999
\* the fields of the encoded struct that hold a date or a timestamp
Dated(T) == {i \in Written(ty, mem) : FieldsOf(ty)[i].base = T}
Held(i) ==
    IF IsOptional(FieldsOf(ty)[i]) THEN mem[FieldsOf(ty)[i].name][1]
    ELSE mem[FieldsOf(ty)[i].name]
Text(i) == Get(wire, WireKey(FieldsOf(ty)[i]))

Selected(j) ==
    IF QuantityShape(j) THEN "Quantity"
    ELSE IF ConceptShape(j) THEN "CodeableConcept"
    ELSE ""
\* the selected variant's own decode of the text
Own(j) == Deserialize(Selected(j), j)
\* a text of a candidate's shape that the candidate itself refuses
CandidateFails(j) == Selected(j) # "" /\ ~Own(j).ok

\* C11, as stated: when the lab value has the shape of a candidate variant
\* and that candidate's own decode fails, decoding fails, yields no other
\* variant, and reports the candidate's own error, not AmbiguousUnion.
C11_NoFallThrough ==
    pc = "decoded" /\ how \in {"shape", "shape-in"} /\ CandidateFails(base) =>
        ~LabRead.ok /\ LabRead = Own(base)

\* what the derive does instead: the next variants are tried, the errors
\* of the variants are dropped, and when none accepts the text the error is
\* the union's
C11_TriesEveryVariant ==
    pc = "decoded" /\ how \in {"shape", "shape-in"} /\ CandidateFails(base) =>
        IF Selected(base) = "Quantity" /\ Deserialize("CodeableConcept", base).ok
        THEN LabRead.ok /\ LabRead.v.variant \in {"Concept", "CodeableConcept"}
        ELSE ~LabRead.ok /\ LabRead.kind = "AmbiguousUnion"

\* a concept whose Coding lacks `code` has been refused with the union's
\* error
C11_UnionError ==
    /\ pc = "decoded" /\ how = "shape-in" /\ ty = "LabResult"
    /\ base = JMap(<<Member("coding", JList(<<BadCoding>>))>>)
    /\ Own(base) = Err("MissingField", "code")
    /\ ~res.ok /\ res.kind = "AmbiguousUnion"

\* a text of the shape of a Quantity that Quantity refuses (`value` is
\* written twice) has been read as a concept
C11_FellThrough ==
    /\ pc = "decoded" /\ how = "shape-in" /\ ty = "LabResult"
    /\ Selected(base) = "Quantity" /\ Own(base) = Err("DuplicateField", "value")
    /\ res.ok /\ res.v["value"].variant = "Concept"


(***************************************************************************)
(* C12: the order of the keys.                                             *)
(***************************************************************************)
\* the keys of each entity in the order section 3 lists them
DataModelOrder ==
    "Person" :> <<"id", "resourceType", "name", "birthDate", "identifier", "gender",
                  "telecom", "address", "maritalStatus", "language", "clinicalSummary">> @@
    "LabReport" :> <<"id", "patientId", "issuedAt", "results", "facility", "panel",
                     "specimen">> @@
    "ImagingReport" :> <<"id", "patientId", "modality", "bodySite", "reportedAt",
                         "studyInstanceUid", "performer", "findings", "impression",
                         "radiationDose", "attachments">> @@
    "MedicationRecord" :> <<"id", "patientId", "medication", "dosage", "route",
                            "startDate", "form", "frequency", "durationDays", "endDate",
                            "indication", "instructions">> @@
    "FamilyHealthTree" :> <<"probandId", "members">>
\* the entity a definition is a definition of, for both sets of definitions
EntityOf(T) ==
    IF T \in Entities THEN T
    ELSE CHOOSE E \in Entities : Counterpart[E] = T
EntityTypes == Entities \cup {Counterpart[E] : E \in Entities}
\* the keys of an object in the order they are written
KeySeq(j) == [i \in 1..Len(j.v) |-> j.v[i].k]
\* the keys of `order` that the object holds, in the order of `order`
Present(order, j) == SelectSeq(order, LAMBDA k : HasKey(j, k))
\* the keys of T's fields in the order the struct declares them
DeclaredKeys(T) == [i \in 1..Len(FieldsOf(T)) |-> WireKey(FieldsOf(T)[i])]

\* C12, as stated: for every entity the keys of the encoded output appear
\* in the order of the data model (Person: id, resourceType, name,
\* birthDate, ...), whichever optional fields are present.
C12_DataModelOrder ==
    pc = "encoded" /\ ty \in EntityTypes =>
        KeySeq(wire) = Present(DataModelOrder[EntityOf(ty)], wire)

\* C12, amended: every struct writes its keys in the order its own
\* definition declares the fields, whichever optional fields are present;
\* for every entity that is the order of the data model, except for the
\* crate root's HealthPerson, which declares and writes resourceType after
\* birthDate (id, name, birthDate, resourceType, identifier, ...).
C12_DeclarationOrder ==
    pc = "encoded" /\ IsStruct(ty) =>
        /\ KeySeq(wire) = Present(DeclaredKeys(ty), wire)
        /\ ty \in EntityTypes \ {"lib::HealthPerson"} =>
              KeySeq(wire) = Present(DataModelOrder[EntityOf(ty)], wire)
        /\ ty = "lib::HealthPerson" =>
              /\ SubSeq(KeySeq(wire), 1, 4) = <<"id", "name", "birthDate", "resourceType">>
              /\ SubSeq(KeySeq(wire), 5, Len(wire.v))
                    = Present(SubSeq(DataModelOrder["Person"], 5, 11), wire)

\* a Person without gender and telecom, with identifier, address and
\* language, has been encoded with the remaining keys in order
C12_Witness ==
    /\ pc = "encoded" /\ ty = "Person"
    /\ mem["gender"] = None /\ mem["telecom"] = None
    /\ KeySeq(wire) = <<"id", "resourceType", "name", "birthDate", "identifier",
                        "address", "language">>


(***************************************************************************)
(* C13: the two sets of definitions read each other's texts.               *)
(***************************************************************************)
\* two texts hold the same keys and values, whatever the order of the keys
RECURSIVE SameText(_, _)
SameText(a, b) ==
    CASE a.t = "map" /\ b.t = "map" ->
           /\ Len(a.v) = Len(b.v) /\ Keys(a) = Keys(b)
           /\ \A k \in Keys(a) : SameText(Get(a, k), Get(b, k))
      [] a.t = "list" /\ b.t = "list" ->
           /\ Len(a.v) = Len(b.v)
           /\ \A i \in 1..Len(a.v) : SameText(a.v[i], b.v[i])
      [] OTHER -> a.t = b.t /\ a = b

\* the values a field's value holds
Elements(f, x) ==
    CASE f.shape = "req" -> {x}
      [] f.shape = "opt" -> IF x = None THEN {} ELSE {x[1]}
      [] f.shape = "vec" -> {x[i] : i \in 1..Len(x)}
      [] f.shape = "optvec" -> IF x = None THEN {} ELSE {x[1][i] : i \in 1..Len(x[1])}
\* the key of the data model a field of the crate root stands for
Meant(f) == IF WireKey(f) = "use_" THEN "use" ELSE WireKey(f)
\* value x of the crate root's definition L holds, wherever the modules'
\* definition S holds an enum or a date, a string that is a tag of that enum
\* or a date
RECURSIVE ValidStrings(_, _, _)
ValidStrings(S, L, x) ==
    CASE IsStruct(S) /\ IsStruct(L) ->
           \A i \in 1..Len(FieldsOf(L)) : \A h \in 1..Len(FieldsOf(S)) :
              WireKey(FieldsOf(S)[h]) = Meant(FieldsOf(L)[i]) =>
                 \A e \in Elements(FieldsOf(L)[i], x[FieldsOf(L)[i].name]) :
                    ValidStrings(FieldsOf(S)[h].base, FieldsOf(L)[i].base, e)
      [] IsEnum(S) -> x.t = "str" /\ \E v \in VariantsOf(S) : VariantTag(S, v) = x.v
      [] S = "NaiveDate" -> x.t = "txt" /\ ParseDate(x.v).ok
      [] S = "DateTime<Utc>" -> x.t = "txt" /\ ParseDateTime(x.v).ok
      [] OTHER -> TRUE

\* C13, as stated: the text of a value of the modules is read by the crate
\* root's definition of the same schema and written again with the same
\* keys and values, and so is the text of a value of the crate root whose
\* enum and date strings are valid by the modules' definition.  (Stated of
\* the values whose numbers are finite; C1 is about the others.)
C13_ShimCompatible ==
    pc \in {"decoded", "normal"} /\ how = "transcode" /\ Finite(arg, mem)
    /\ (arg \in DOMAIN StrictStructs \/ ValidStrings(ty, arg, mem)) =>
        res.ok /\ (pc = "normal" => SameText(base, wire))

\* the text without the `use` members of its objects
RECURSIVE WithoutUse(_)
WithoutUse(j) ==
    CASE j.t = "map" ->
           LET kept == SelectSeq(j.v, LAMBDA m : m.k # "use")
           IN JMap([i \in 1..Len(kept) |-> Member(kept[i].k, WithoutUse(kept[i].v))])
      [] j.t = "list" -> JList([i \in 1..Len(j.v) |-> WithoutUse(j.v[i])])
      [] OTHER -> j
\* what holds of the texts of the modules: the crate root reads each, and
\* writes it again with the same keys and values but for every `use`, which
\* it drops
C13_CompatibleButUse ==
    pc \in {"decoded", "normal"} /\ how = "transcode" /\ Finite(arg, mem)
    /\ arg \in DOMAIN StrictStructs =>
        res.ok /\ (pc = "normal" => SameText(WithoutUse(base), wire))

\* a HumanName of the modules with a use has come back from the crate
\* root's HumanName without it
C13_UseLost ==
    /\ pc = "normal" /\ how = "transcode" /\ arg = "HumanName" /\ ty = "lib::HumanName"
    /\ mem["use"] # None /\ HasKey(base, "use")
    /\ res.ok /\ res.v["use_"] = None
    /\ ~HasKey(wire, "use") /\ ~HasKey(wire, "use_")

\* a ContactPoint of the crate root without a system has been refused by
\* the modules' ContactPoint
C13_SystemMissing ==
    /\ pc = "decoded" /\ how = "transcode" /\ arg = "lib::ContactPoint" /\ ty = "ContactPoint"
    /\ mem["system"] = None /\ ValidStrings(ty, arg, mem)
    /\ res = Err("MissingField", "system")


(***************************************************************************)
(* C14: what decode and encode make of a text.                             *)
(***************************************************************************)
\* the text holds no null, and no key that the struct in its place does not
\* declare
RECURSIVE Normal(_, _)
NormalField(f, j) ==
    IF f.shape \in {"vec", "optvec"}
    THEN j.t = "list" /\ \A i \in 1..Len(j.v) : Normal(f.base, j.v[i])
    ELSE Normal(f.base, j)
Normal(T, j) ==
    CASE IsStruct(T) ->
           /\ j.t = "map" /\ NoRepeatedKey(j)
           /\ \A i \in 1..Len(j.v) : \E h \in 1..Len(FieldsOf(T)) :
                 /\ WireKey(FieldsOf(T)[h]) = j.v[i].k
                 /\ NormalField(FieldsOf(T)[h], j.v[i].v)
      [] IsUntagged(T) ->
           \E i \in 1..Len(Untagged[T]) :
              IF IsStruct(Untagged[T][i].of) THEN j.t = "map" /\ Normal(Untagged[T][i].of, j)
              ELSE IsText(j)
      [] OTHER -> j.t # "null"
\* the field of the struct in hand that is written under key k
FieldAt(k) ==
    FieldsOf(ty)[CHOOSE i \in 1..Len(FieldsOf(ty)) : WireKey(FieldsOf(ty)[i]) = k]

\* C14: a text that writes an optional field as null is another text than
\* the one without the key and decodes to what that one decodes to (to the
\* value with the field absent, when the value's numbers are finite); the
\* text written from any decoded value holds no null and no unknown key;
\* and reading and writing that text again gives the same text.
C14_Normalisation ==
    /\ pc = "decoded" /\ how = "null" =>
          /\ wire # base /\ Get(wire, arg) = JNull /\ ~HasKey(base, arg)
          /\ res = Deserialize(ty, base)
          /\ Finite(ty, mem) => res = Ok([mem EXCEPT ![FieldAt(arg).name] = None])
    /\ pc = "normal" => Normal(ty, wire)
    /\ pc = "renormal" => res.ok /\ wire = base

\* a FamilyMember text with "sex": null has been read and written again,
\* without the key
C14_Witness ==
    /\ pc = "normal" /\ how = "null" /\ ty = "FamilyMember" /\ arg = "sex"
    /\ Get(base, "sex") = JNull /\ mem["sex"] # None /\ res.v["sex"] = None
    /\ ~HasKey(wire, "sex") /\ HasKey(wire, "birthYear")

\* a text with unknown keys in every object has been read and written
\* twice, and the second text is the first
C14_WitnessIdempotent ==
    /\ pc = "renormal" /\ how = "extra-deep" /\ ty = "LabReport"
    /\ wire = base /\ ~HasKey(wire, "extra")

=============================================================================
